---- MODULE Spec2Model ----
(***************************************************************************)
(* A model of the two entry points of the repository:                      *)
(*   prepareJob  (src/unnamed/part_000)                                    *)
(*   ejectAsync  (src/packages/expo-cli/src/commands/eject/Eject.js)       *)
(* One behaviour is one invocation of one of the two by the CLI            *)
(* dispatcher.  External tools (file system, registry, prompts, package    *)
(* managers) are modelled by their outcomes: each call either succeeds     *)
(* with a value drawn from a small set, or fails.                          *)
(***************************************************************************)
EXTENDS Integers, Sequences, FiniteSets, TLC

VARIABLES
  command,        \* which entry point the dispatcher invoked
  \* ---- prepareJob ----
  pjPc,           \* position inside prepareJob
  options,        \* the Options argument: [platform]
  projectUrl,     \* the projectUrl argument
  turtleJson,     \* result of BuildConfig.read: [read, type]
  calls,          \* how often each preparer was invoked
  validations,    \* how often JobSchema.validate was invoked
  prepared,       \* the job the preparer returned
  pjResult,       \* what prepareJob returned or threw
  \* ---- ejectAsync ----
  ejPc,           \* position inside ejectAsync / ejectToBareAsync
  workingTreeStatus,
  optEjectMethod, \* options.ejectMethod
  ejectMethod,
  useYarn,
  configName,
  exp,            \* [isNull, sdkMajor, name]
  pkgJson,        \* the in-memory package manifest
  appJson,        \* the in-memory app.json object of ejectToBareAsync
  appJsonFile,    \* app.json as getAppNamesAsync reads it again
  semverBound,    \* whether the free identifier semver resolves at run time
  templateExists, \* whether the registry holds the template
  names,          \* what getAppNamesAsync did
  disk,           \* what the procedure has put into the project
  steps,          \* the mutating steps performed, in order
  logged,         \* the messages logged
  invoked,        \* sub-procedures of ejectAsync that were invoked
  returned,       \* sub-procedures of ejectAsync that returned normally
  outcome,        \* how ejectAsync ended: [kind, error]
  extFail         \* an external operation has failed

pjVars == <<pjPc, options, projectUrl, turtleJson, calls, validations, prepared, pjResult>>
ejVars == <<ejPc, workingTreeStatus, optEjectMethod, ejectMethod, useYarn, configName,
            exp, pkgJson, appJson, appJsonFile, semverBound, templateExists, names,
            disk, steps, logged, invoked, returned, outcome, extFail>>
vars == <<command, pjVars, ejVars>>

\* JavaScript's undefined, for string-valued fields.
Undefined == "undefined"

\* JavaScript truthiness of a string-valued field.
Truthy(s) == s # Undefined /\ s # ""

(***************************************************************************)
(*                              prepareJob                                 *)
(***************************************************************************)

\* Platform enum of @expo/build-tools, and a value outside it.
Platforms == {"android", "ios"}
PlatformInputs == Platforms \cup {"web"}

\* BuildType enum of @expo/build-tools, and a value outside it.
BuildTypes == {"generic", "managed"}
BuildTypeInputs == BuildTypes \cup {"custom"}

ProjectUrls == {"https://a/archive.tgz", "https://b/archive.tgz"}

Preparers == {"prepareAndroidGenericJob", "prepareAndroidManagedJob",
              "prepareiOSGenericJob", "prepareiOSManagedJob"}

NoJob == [platform |-> "none", type |-> "none", projectUrl |-> "none",
          wellFormed |-> FALSE, validated |-> FALSE]

NoResult == [kind |-> "none", job |-> NoJob, error |-> "none"]

\* JobSchema.validate: {value, error}.  The value is the job as the schema
\* returns it; the error is set when the job does not fit the schema.
JobSchemaValidate(job) ==
  IF job.wellFormed
    THEN [value |-> [job EXCEPT !.validated = TRUE], error |-> "none"]
    ELSE [value |-> job, error |-> "ValidationError"]

\* A validateJob that drops the schema's answer and returns the job as given.
ValidateJobSkipsError(job) ==
  [kind |-> "returned", job |-> job, error |-> "none"]

\* lines 7-15, validateJob: throws the schema's error, else returns the
\* schema's value.
ValidateJob(job) ==
  LET r == JobSchemaValidate(job) IN
  IF r.error # "none"
    THEN [kind |-> "thrown", job |-> NoJob, error |-> r.error]
    ELSE [kind |-> "returned", job |-> r.value, error |-> "none"]

\* The switch with the two iOS cases exchanged.
SelectPreparerSwapped(platform, type) ==
  CASE platform = "android" /\ type = "generic" -> "prepareAndroidGenericJob"
    [] platform = "android" /\ type = "managed" -> "prepareAndroidManagedJob"
    [] platform = "ios" /\ type = "generic" -> "prepareiOSManagedJob"
    [] platform = "ios" /\ type = "managed" -> "prepareiOSGenericJob"
    [] platform \in Platforms /\ type \notin BuildTypes -> "Unsupported build type"
    [] OTHER -> "Unsupported platform"

\* The switch without its default cases: anything unknown falls into a case.
SelectPreparerNoDefault(platform, type) ==
  CASE platform = "android" /\ type = "managed" -> "prepareAndroidManagedJob"
    [] platform = "android" -> "prepareAndroidGenericJob"
    [] platform = "ios" /\ type = "managed" -> "prepareiOSManagedJob"
    [] OTHER -> "prepareiOSGenericJob"

\* lines 20-49, the two nested switch statements of prepareJob: the preparer
\* to call, or the error to throw.
SelectPreparer(platform, type) ==
  CASE platform = "android" /\ type = "generic" -> "prepareAndroidGenericJob"
    [] platform = "android" /\ type = "managed" -> "prepareAndroidManagedJob"
    [] platform = "android" -> "Unsupported build type"
    [] platform = "ios" /\ type = "generic" -> "prepareiOSGenericJob"
    [] platform = "ios" /\ type = "managed" -> "prepareiOSManagedJob"
    [] platform = "ios" -> "Unsupported build type"
    [] OTHER -> "Unsupported platform"

\* The platform and build type each preparer builds its job for.
PreparerPlatform(p) ==
  IF p \in {"prepareAndroidGenericJob", "prepareAndroidManagedJob"} THEN "android" ELSE "ios"

PreparerType(p) ==
  IF p \in {"prepareAndroidGenericJob", "prepareiOSGenericJob"} THEN "generic" ELSE "managed"

PjInit ==
  /\ pjPc = "read"
  /\ options \in [platform : PlatformInputs]
  /\ projectUrl \in ProjectUrls
  /\ turtleJson = [read |-> "unread", type |-> Undefined]
  /\ calls = [p \in Preparers |-> 0]
  /\ validations = 0
  /\ prepared = NoJob
  /\ pjResult = NoResult

PjIdle ==
  /\ pjPc = "idle"
  /\ options = [platform |-> "none"]
  /\ projectUrl = "none"
  /\ turtleJson = [read |-> "unread", type |-> Undefined]
  /\ calls = [p \in Preparers |-> 0]
  /\ validations = 0
  /\ prepared = NoJob
  /\ pjResult = NoResult

\* line 18: const turtleJson = await BuildConfig.read(projectDir)
ReadBuildConfig ==
  /\ command = "prepareJob"
  /\ pjPc = "read"
  /\ \/ /\ turtleJson' = [read |-> "failed", type |-> Undefined]
        /\ pjResult' = [kind |-> "thrown", job |-> NoJob, error |-> "BuildConfigReadError"]
        /\ pjPc' = "done"
     \/ \E t \in BuildTypeInputs :
          /\ turtleJson' = [read |-> "ok", type |-> t]
          /\ pjResult' = pjResult
          /\ pjPc' = "switch"
  /\ UNCHANGED <<command, options, projectUrl, calls, validations, prepared, ejVars>>

\* lines 20-49: the switch, and the await of the selected preparer
PrepareSelected ==
  /\ command = "prepareJob"
  /\ pjPc = "switch"
  /\ LET sel == SelectPreparer(options.platform, turtleJson.type) IN
     IF sel \in Preparers
       THEN /\ calls' = [calls EXCEPT ![sel] = @ + 1]
            /\ \/ /\ prepared' = prepared
                  /\ pjResult' = [kind |-> "thrown", job |-> NoJob, error |-> "PrepareError"]
                  /\ pjPc' = "done"
               \/ \E wf \in BOOLEAN :
                    /\ prepared' = [platform |-> PreparerPlatform(sel),
                                    type |-> PreparerType(sel),
                                    projectUrl |-> projectUrl,
                                    wellFormed |-> wf, validated |-> FALSE]
                    /\ pjResult' = pjResult
                    /\ pjPc' = "validate"
       ELSE /\ pjResult' = [kind |-> "thrown", job |-> NoJob, error |-> sel]
            /\ pjPc' = "done"
            /\ UNCHANGED <<calls, prepared>>
  /\ UNCHANGED <<command, options, projectUrl, turtleJson, validations, ejVars>>

\* lines 7-15, called from lines 24, 28, 37, 41: return validateJob(job)
ValidateAndReturn ==
  /\ command = "prepareJob"
  /\ pjPc = "validate"
  /\ validations' = validations + 1
  /\ pjResult' = ValidateJob(prepared)
  /\ pjPc' = "done"
  /\ UNCHANGED <<command, options, projectUrl, turtleJson, calls, prepared, ejVars>>

(***************************************************************************)
(*                               ejectAsync                                *)
(***************************************************************************)

\* line 19
EXPO_APP_ENTRY == "node_modules/expo/AppEntry.js"

\* line 116: Versions.gteSdkVersion(exp, '33.0.0'), on the SDK's major number
MinSdkMajor == 33

\* The largest SDK major number a project of the model is on.
MaxSdkMajor == 34

SdkMajors == (MinSdkMajor - 1)..MaxSdkMajor

\* options.ejectMethod: absent, one of the three choices, or anything else.
EjectMethodInputs == {Undefined, "bare", "expokit", "cancel", "detach"}

\* The choices of the ejectMethod question (lines 58-75).
EjectMethodChoices == {"bare", "expokit", "cancel"}

NullExp == [isNull |-> TRUE, sdkMajor |-> 0, name |-> Undefined]

ExpConfigs == {NullExp} \cup [isNull : {FALSE}, sdkMajor : SdkMajors, name : {"my-app"}]

NoScripts == [eject |-> Undefined, start |-> Undefined, ios |-> Undefined, android |-> Undefined]

ExpoScripts == [eject |-> "expo eject", start |-> "expo start", ios |-> "expo start --ios",
                android |-> Undefined]

NoDeps == [reactNative |-> Undefined, unimodules |-> Undefined]

NullPkg == [isNull |-> TRUE, hasScripts |-> FALSE, scripts |-> NoScripts,
            hasDeps |-> FALSE, deps |-> NoDeps, main |-> Undefined]

\* package.json files a managed project may hold.
PkgFiles ==
  {NullPkg} \cup
  { [isNull |-> FALSE, hasScripts |-> hs, scripts |-> IF hs THEN ExpoScripts ELSE NoScripts,
     hasDeps |-> hd, deps |-> NoDeps, main |-> m] :
      hs \in BOOLEAN, hd \in BOOLEAN, m \in {Undefined, EXPO_APP_ENTRY} }

\* The object {} that stands for app.json when the config file is not app.json.
EmptyAppJson == [displayName |-> Undefined, name |-> Undefined, hasExpo |-> FALSE,
                 entryPoint |-> Undefined]

\* app.json files a managed project may hold.
AppJsonFiles ==
  [displayName : {Undefined, "", "My App"}, name : {Undefined, "myapp"}, hasExpo : {TRUE},
   entryPoint : {Undefined, EXPO_APP_ENTRY, "src/main.js"}]

\* Answers the naming prompt accepts (lines 231-246: non-empty, the project
\* name without hyphens and spaces).
NameAnswers == [displayName : {"Home App"}, name : {"HomeApp"}]

NoNames == [displayName |-> Undefined, name |-> Undefined]

\* versions.sdkVersions[sdkVersion].facebookReactNativeVersion
ReactNativeVersion == "0.59.8"

CleanDisk == [appJson |-> [written |-> FALSE, content |-> EmptyAppJson],
              ios |-> FALSE, android |-> FALSE,
              packageJson |-> [written |-> FALSE, content |-> NullPkg],
              indexJs |-> Undefined, nodeModules |-> TRUE]

Running == [kind |-> "running", error |-> "none", code |-> 0]

Thrown(e) == [kind |-> "thrown", error |-> e, code |-> 0]

EjInit ==
  /\ ejPc = "git"
  /\ workingTreeStatus = "unknown"
  /\ optEjectMethod \in EjectMethodInputs
  /\ ejectMethod = Undefined
  /\ useYarn = FALSE
  /\ configName = Undefined
  /\ exp = NullExp
  /\ pkgJson = NullPkg
  /\ appJson = EmptyAppJson
  /\ appJsonFile = EmptyAppJson
  /\ semverBound \in BOOLEAN
  /\ templateExists = "unknown"
  /\ names = [called |-> FALSE, prompted |-> FALSE, returned |-> FALSE,
              answer |-> NoNames, result |-> NoNames]
  /\ disk = CleanDisk
  /\ steps = <<>>
  /\ logged = {}
  /\ invoked = {}
  /\ returned = {}
  /\ outcome = Running
  /\ extFail = FALSE

EjIdle ==
  /\ ejPc = "idle"
  /\ workingTreeStatus = "unknown"
  /\ optEjectMethod = Undefined
  /\ ejectMethod = Undefined
  /\ useYarn = FALSE
  /\ configName = Undefined
  /\ exp = NullExp
  /\ pkgJson = NullPkg
  /\ appJson = EmptyAppJson
  /\ appJsonFile = EmptyAppJson
  /\ semverBound = FALSE
  /\ templateExists = "unknown"
  /\ names = [called |-> FALSE, prompted |-> FALSE, returned |-> FALSE,
              answer |-> NoNames, result |-> NoNames]
  /\ disk = CleanDisk
  /\ steps = <<>>
  /\ logged = {}
  /\ invoked = {}
  /\ returned = {}
  /\ outcome = Running
  /\ extFail = FALSE

Init ==
  \/ command = "prepareJob" /\ PjInit /\ EjIdle
  \/ command = "eject" /\ EjInit /\ PjIdle

\* lines 22-47: git status --porcelain, and the advice that depends on it
GitStatus ==
  /\ command = "eject"
  /\ ejPc = "git"
  /\ \E s \in {"clean", "dirty", "unknown"} :
       /\ workingTreeStatus' = s
       /\ logged' = logged \cup
            {CASE s = "clean" -> "git clean: revert with git clean and git reset"
               [] s = "dirty" -> "git dirty: commit your changes before proceeding"
               [] OTHER -> "no git: back up your project before proceeding"}
  /\ ejPc' = "method"
  /\ UNCHANGED <<command, pjVars, optEjectMethod, ejectMethod, useYarn, configName, exp,
                 pkgJson, appJson, appJsonFile, semverBound, templateExists, names, disk,
                 steps, invoked, returned, outcome, extFail>>

\* lines 79-83: options.ejectMethod || (await prompt(questions)).ejectMethod
ChooseEjectMethod ==
  /\ command = "eject"
  /\ ejPc = "method"
  /\ IF Truthy(optEjectMethod)
       THEN /\ ejectMethod' = optEjectMethod
            /\ ejPc' = "dispatch"
            /\ UNCHANGED <<outcome, extFail>>
       ELSE \/ \E m \in EjectMethodChoices :
                 /\ ejectMethod' = m
                 /\ ejPc' = "dispatch"
                 /\ UNCHANGED <<outcome, extFail>>
            \/ /\ outcome' = Thrown("PromptError")
               /\ extFail' = TRUE
               /\ ejPc' = "done"
               /\ UNCHANGED ejectMethod
  /\ UNCHANGED <<command, pjVars, workingTreeStatus, optEjectMethod, useYarn, configName,
                 exp, pkgJson, appJson, appJsonFile, semverBound, templateExists, names,
                 disk, steps, logged, invoked, returned>>

\* A dispatch whose final else ejects to bare instead of throwing.
DispatchTargetDefaultsToBare(method) ==
  CASE method = "expokit" -> "login"
    [] method = "cancel" -> "cancelled"
    [] OTHER -> "bare_read"

\* lines 85-98: where the chosen method leads
DispatchTarget(method) ==
  CASE method = "bare" -> "bare_read"
    [] method = "expokit" -> "login"
    [] method = "cancel" -> "cancelled"
    [] OTHER -> "unrecognized"

\* lines 85-98: if (ejectMethod === 'bare') ... else throw
Dispatch ==
  /\ command = "eject"
  /\ ejPc = "dispatch"
  /\ LET target == DispatchTarget(ejectMethod) IN
     CASE target = "bare_read" ->
            /\ invoked' = invoked \cup {"ejectToBareAsync"}
            /\ ejPc' = "bare_read"
            /\ UNCHANGED <<logged, outcome>>
       [] target = "login" ->
            /\ invoked' = invoked \cup {"loginOrRegisterIfLoggedOut"}
            /\ ejPc' = "login"
            /\ UNCHANGED <<logged, outcome>>
       [] target = "cancelled" ->
            /\ logged' = logged \cup {"OK! If you change your mind you can run this command again."}
            /\ outcome' = [kind |-> "returned", error |-> "none", code |-> 0]
            /\ ejPc' = "done"
            /\ UNCHANGED invoked
       [] target = "unrecognized" ->
            /\ outcome' = Thrown("Unrecognized eject method")
            /\ ejPc' = "done"
            /\ UNCHANGED <<logged, invoked>>
  /\ UNCHANGED <<command, pjVars, workingTreeStatus, optEjectMethod, ejectMethod, useYarn,
                 configName, exp, pkgJson, appJson, appJsonFile, semverBound,
                 templateExists, names, disk, steps, returned, extFail>>

\* line 88: await loginOrRegisterIfLoggedOut()
Login ==
  /\ command = "eject"
  /\ ejPc = "login"
  /\ \/ /\ returned' = returned \cup {"loginOrRegisterIfLoggedOut"}
        /\ invoked' = invoked \cup {"Detach.detachAsync"}
        /\ ejPc' = "detach"
        /\ UNCHANGED <<outcome, extFail>>
     \/ /\ outcome' = Thrown("LoginError")
        /\ extFail' = TRUE
        /\ ejPc' = "done"
        /\ UNCHANGED <<returned, invoked>>
  /\ UNCHANGED <<command, pjVars, workingTreeStatus, optEjectMethod, ejectMethod, useYarn,
                 configName, exp, pkgJson, appJson, appJsonFile, semverBound,
                 templateExists, names, disk, steps, logged>>

\* line 89: await Detach.detachAsync(projectRoot, options)
DetachProject ==
  /\ command = "eject"
  /\ ejPc = "detach"
  /\ \/ /\ returned' = returned \cup {"Detach.detachAsync"}
        /\ ejPc' = "success"
        /\ UNCHANGED <<outcome, extFail>>
     \/ /\ outcome' = Thrown("DetachError")
        /\ extFail' = TRUE
        /\ ejPc' = "done"
        /\ UNCHANGED returned
  /\ UNCHANGED <<command, pjVars, workingTreeStatus, optEjectMethod, ejectMethod, useYarn,
                 configName, exp, pkgJson, appJson, appJsonFile, semverBound,
                 templateExists, names, disk, steps, logged, invoked>>

\* line 100: log(chalk.green('Ejected successfully!'))
LogSuccess ==
  /\ command = "eject"
  /\ ejPc = "success"
  /\ logged' = logged \cup {"Ejected successfully!"}
  /\ outcome' = [kind |-> "returned", error |-> "none", code |-> 0]
  /\ ejPc' = "done"
  /\ UNCHANGED <<command, pjVars, workingTreeStatus, optEjectMethod, ejectMethod, useYarn,
                 configName, exp, pkgJson, appJson, appJsonFile, semverBound,
                 templateExists, names, disk, steps, invoked, returned, extFail>>

(***************************************************************************)
(*                            ejectToBareAsync                             *)
(***************************************************************************)

\* lines 104-108: isUsingYarn, findConfigFileAsync, readConfigJsonAsync and
\* the parse of app.json ({} when the config file is not app.json)
BareReadConfig ==
  /\ command = "eject"
  /\ ejPc = "bare_read"
  /\ \/ \E y \in BOOLEAN, cn \in {"app.json", "exp.json"}, e \in ExpConfigs, p \in PkgFiles :
          \E a \in (IF cn = "app.json" THEN AppJsonFiles ELSE {EmptyAppJson}) :
            /\ useYarn' = y
            /\ configName' = cn
            /\ exp' = e
            /\ pkgJson' = p
            /\ appJson' = a
            /\ appJsonFile' = a
            /\ ejPc' = "bare_validate"
            /\ UNCHANGED <<outcome, extFail>>
     \/ /\ outcome' = Thrown("ConfigReadError")
        /\ extFail' = TRUE
        /\ ejPc' = "done"
        /\ UNCHANGED <<useYarn, configName, exp, pkgJson, appJson, appJsonFile>>
  /\ UNCHANGED <<command, pjVars, workingTreeStatus, optEjectMethod, ejectMethod,
                 semverBound, templateExists, names, disk, steps, logged, invoked,
                 returned>>

\* lines 113-118: the validations of exp, pkgJson and the SDK version
BareValidate ==
  /\ command = "eject"
  /\ ejPc = "bare_validate"
  /\ IF exp.isNull
       THEN outcome' = Thrown("Couldn't read config") /\ ejPc' = "done"
       ELSE IF pkgJson.isNull
         THEN outcome' = Thrown("Couldn't read package.json") /\ ejPc' = "done"
         ELSE IF ~(exp.sdkMajor >= MinSdkMajor)
           THEN outcome' = Thrown("Only available for SDK 33 and higher") /\ ejPc' = "done"
           ELSE outcome' = outcome /\ ejPc' = "bare_template"
  /\ UNCHANGED <<command, pjVars, workingTreeStatus, optEjectMethod, ejectMethod, useYarn,
                 configName, exp, pkgJson, appJson, appJsonFile, semverBound,
                 templateExists, names, disk, steps, logged, invoked, returned, extFail>>

\* lines 121-129: semver.major(exp.sdkVersion), then pacote.manifest of the
\* template.  The module imports no semver (lines 3-17): the identifier is
\* free and the call throws a ReferenceError unless the global scope binds it.
BareCheckTemplate ==
  /\ command = "eject"
  /\ ejPc = "bare_template"
  /\ \E t \in {"yes", "no"} :
       /\ templateExists' = t
       /\ IF ~semverBound
            THEN outcome' = Thrown("ReferenceError: semver is not defined") /\ ejPc' = "done"
            ELSE IF t = "no"
              THEN outcome' = Thrown("Eject template not found") /\ ejPc' = "done"
              ELSE outcome' = outcome /\ ejPc' = "names"
  /\ UNCHANGED <<command, pjVars, workingTreeStatus, optEjectMethod, ejectMethod, useYarn,
                 configName, exp, pkgJson, appJson, appJsonFile, semverBound, names, disk,
                 steps, logged, invoked, returned, extFail>>

\* The condition with && in place of ||.
NeedsNamePromptOnlyIfBothMissing(displayName, name) == ~Truthy(displayName) /\ ~Truthy(name)

\* line 223: if (!displayName || !name)
NeedsNamePrompt(displayName, name) == ~Truthy(displayName) \/ ~Truthy(name)

\* lines 134-136 and 217-256: getAppNamesAsync reads app.json again, prompts
\* when a name is missing, and its result is stored into appJson
GetAppNames ==
  /\ command = "eject"
  /\ ejPc = "names"
  /\ IF NeedsNamePrompt(appJsonFile.displayName, appJsonFile.name)
       THEN /\ logged' = logged \cup {"We have a couple of questions to ask you"}
            /\ \/ \E ans \in NameAnswers :
                    /\ names' = [called |-> TRUE, prompted |-> TRUE, returned |-> TRUE,
                                 answer |-> ans, result |-> ans]
                    /\ appJson' = [appJson EXCEPT !.displayName = ans.displayName,
                                                  !.name = ans.name]
                    /\ ejPc' = "entry"
                    /\ UNCHANGED <<outcome, extFail>>
               \/ /\ names' = [called |-> TRUE, prompted |-> TRUE, returned |-> FALSE,
                               answer |-> NoNames, result |-> NoNames]
                  /\ outcome' = Thrown("PromptError")
                  /\ extFail' = TRUE
                  /\ ejPc' = "done"
                  /\ UNCHANGED appJson
       ELSE /\ names' = [called |-> TRUE, prompted |-> FALSE, returned |-> TRUE,
                         answer |-> NoNames,
                         result |-> [displayName |-> appJsonFile.displayName,
                                     name |-> appJsonFile.name]]
            /\ appJson' = [appJson EXCEPT !.displayName = appJsonFile.displayName,
                                          !.name = appJsonFile.name]
            /\ ejPc' = "entry"
            /\ UNCHANGED <<logged, outcome, extFail>>
  /\ UNCHANGED <<command, pjVars, workingTreeStatus, optEjectMethod, ejectMethod, useYarn,
                 configName, exp, pkgJson, appJsonFile, semverBound, templateExists, disk,
                 steps, invoked, returned>>

\* lines 138-144: keep a custom expo.entryPoint (with a warning), else set it.
\* appJson.expo is undefined when appJson is {}: reading its entryPoint throws.
SetEntryPoint ==
  /\ command = "eject"
  /\ ejPc = "entry"
  /\ IF ~appJson.hasExpo
       THEN /\ outcome' = Thrown("TypeError: appJson.expo is undefined")
            /\ ejPc' = "done"
            /\ UNCHANGED <<appJson, logged>>
       ELSE /\ IF Truthy(appJson.entryPoint) /\ appJson.entryPoint # EXPO_APP_ENTRY
                 THEN /\ logged' = logged \cup {"expo.entryPoint is already configured"}
                      /\ UNCHANGED appJson
                 ELSE /\ appJson' = [appJson EXCEPT !.entryPoint = EXPO_APP_ENTRY]
                      /\ UNCHANGED logged
            /\ ejPc' = "write_app"
            /\ UNCHANGED outcome
  /\ UNCHANGED <<command, pjVars, workingTreeStatus, optEjectMethod, ejectMethod, useYarn,
                 configName, exp, pkgJson, appJsonFile, semverBound, templateExists, names,
                 disk, steps, invoked, returned, extFail>>

\* lines 146-148: fse.writeFile('app.json', JSON.stringify(appJson))
WriteAppJson ==
  /\ command = "eject"
  /\ ejPc = "write_app"
  /\ \/ /\ disk' = [disk EXCEPT !.appJson = [written |-> TRUE, content |-> appJson]]
        /\ steps' = Append(steps, "write app.json")
        /\ logged' = logged \cup {"Writing app.json...", "Wrote to app.json"}
        /\ ejPc' = "template"
        /\ UNCHANGED <<outcome, extFail>>
     \/ /\ logged' = logged \cup {"Writing app.json..."}
        /\ outcome' = Thrown("WriteError: app.json")
        /\ extFail' = TRUE
        /\ ejPc' = "done"
        /\ UNCHANGED <<disk, steps>>
  /\ UNCHANGED <<command, pjVars, workingTreeStatus, optEjectMethod, ejectMethod, useYarn,
                 configName, exp, pkgJson, appJson, appJsonFile, semverBound,
                 templateExists, names, invoked, returned>>

\* A catch block that reports the failure and gives no advice.
TemplateFailureLogNoGuidance ==
  {"Eject failed, see above output for any issues."}

\* lines 160-164: what the catch block around the template step logs
TemplateFailureLog ==
  {"Eject failed, see above output for any issues.",
   "You may want to delete the ios and/or android directories."}

\* line 164: process.exit(1)
TemplateFailureOutcome == [kind |-> "exit", error |-> "TemplateError", code |-> 1]

\* lines 153-165: extract the template, copy ios and android over; on any
\* failure log the advice and exit
ExtractTemplate ==
  /\ command = "eject"
  /\ ejPc = "template"
  /\ \/ \* Exp.extractTemplateAppAsync or fse.copySync of ios throws
        /\ UNCHANGED <<disk, steps>>
        /\ logged' = logged \cup TemplateFailureLog
        /\ outcome' = TemplateFailureOutcome
        /\ extFail' = TRUE
        /\ ejPc' = "done"
     \/ \* fse.copySync of android throws
        /\ disk' = [disk EXCEPT !.ios = TRUE]
        /\ steps' = Append(steps, "copy ios")
        /\ logged' = logged \cup TemplateFailureLog
        /\ outcome' = TemplateFailureOutcome
        /\ extFail' = TRUE
        /\ ejPc' = "done"
     \/ /\ disk' = [disk EXCEPT !.ios = TRUE, !.android = TRUE]
        /\ steps' = steps \o <<"copy ios", "copy android">>
        /\ logged' = logged \cup {"Successfully copied template native code."}
        /\ ejPc' = "pkg"
        /\ UNCHANGED <<outcome, extFail>>
  /\ UNCHANGED <<command, pjVars, workingTreeStatus, optEjectMethod, ejectMethod, useYarn,
                 configName, exp, pkgJson, appJson, appJsonFile, semverBound,
                 templateExists, names, invoked, returned>>

\* lines 168-174: the scripts of the bare project
BareScripts(scripts) ==
  [scripts EXCEPT !.eject = Undefined,
                  !.start = "react-native start",
                  !.ios = "react-native run-ios",
                  !.android = "react-native run-android"]

\* lines 167-186: update the scripts, look the React Native version up, add
\* the two dependencies and write package.json.  pkgJson.dependencies may be
\* undefined, and assigning a property of it then throws.
UpdatePackageJson ==
  /\ command = "eject"
  /\ ejPc = "pkg"
  /\ LET scripted == [pkgJson EXCEPT !.hasScripts = TRUE, !.scripts = BareScripts(@)]
         updated == [scripted EXCEPT !.deps = [reactNative |-> ReactNativeVersion,
                                               unimodules |-> "^0.4.1"]]
     IN
     \/ \* Versions.versionsAsync fails, or holds no entry for the SDK version
        /\ pkgJson' = scripted
        /\ outcome' = Thrown("VersionsError")
        /\ extFail' = TRUE
        /\ ejPc' = "done"
        /\ UNCHANGED <<disk, steps, logged>>
     \/ /\ ~pkgJson.hasDeps
        /\ pkgJson' = scripted
        /\ outcome' = Thrown("TypeError: pkgJson.dependencies is undefined")
        /\ ejPc' = "done"
        /\ UNCHANGED <<disk, steps, logged, extFail>>
     \/ /\ pkgJson.hasDeps
        /\ pkgJson' = updated
        /\ outcome' = Thrown("WriteError: package.json")
        /\ extFail' = TRUE
        /\ ejPc' = "done"
        /\ UNCHANGED <<disk, steps, logged>>
     \/ /\ pkgJson.hasDeps
        /\ pkgJson' = updated
        /\ disk' = [disk EXCEPT !.packageJson = [written |-> TRUE, content |-> updated]]
        /\ steps' = Append(steps, "write package.json")
        /\ logged' = logged \cup {"Your package.json is up to date!"}
        /\ ejPc' = "index"
        /\ UNCHANGED <<outcome, extFail>>
  /\ UNCHANGED <<command, pjVars, workingTreeStatus, optEjectMethod, ejectMethod, useYarn,
                 configName, exp, appJson, appJsonFile, semverBound, templateExists, names,
                 invoked, returned>>

\* lines 188-197: delete pkgJson.main (of the object in memory: package.json
\* was written at line 184 and is not written again) and write index.js,
\* which registers the component under appJson.name
AddEntryPoint ==
  /\ command = "eject"
  /\ ejPc = "index"
  /\ pkgJson' = [pkgJson EXCEPT !.main = Undefined]
  /\ \/ /\ disk' = [disk EXCEPT !.indexJs = appJson.name]
        /\ steps' = Append(steps, "write index.js")
        /\ logged' = logged \cup {"Added new entry points!"}
        /\ ejPc' = "rm_modules"
        /\ UNCHANGED <<outcome, extFail>>
     \/ /\ outcome' = Thrown("WriteError: index.js")
        /\ extFail' = TRUE
        /\ ejPc' = "done"
        /\ UNCHANGED <<disk, steps, logged>>
  /\ UNCHANGED <<command, pjVars, workingTreeStatus, optEjectMethod, ejectMethod, useYarn,
                 configName, exp, appJson, appJsonFile, semverBound, templateExists, names,
                 invoked, returned>>

\* lines 203-204: await fse.remove('node_modules')
RemoveNodeModules ==
  /\ command = "eject"
  /\ ejPc = "rm_modules"
  /\ \/ /\ disk' = [disk EXCEPT !.nodeModules = FALSE]
        /\ steps' = Append(steps, "remove node_modules")
        /\ ejPc' = "install"
        /\ UNCHANGED <<outcome, extFail>>
     \/ /\ outcome' = Thrown("RemoveError: node_modules")
        /\ extFail' = TRUE
        /\ ejPc' = "done"
        /\ UNCHANGED <<disk, steps>>
  /\ UNCHANGED <<command, pjVars, workingTreeStatus, optEjectMethod, ejectMethod, useYarn,
                 configName, exp, pkgJson, appJson, appJsonFile, semverBound,
                 templateExists, names, logged, invoked, returned>>

\* An install that ignores useYarn.
InstallCommandAlwaysNpm(yarn) == "npm install"

\* lines 205-214: the package manager that is spawned
InstallCommand(yarn) == IF yarn THEN "yarnpkg" ELSE "npm install"

\* lines 205-214: spawn.sync of the package manager (it returns the child's
\* status and does not throw), then ejectToBareAsync returns
Install ==
  /\ command = "eject"
  /\ ejPc = "install"
  /\ steps' = Append(steps, InstallCommand(useYarn))
  /\ \E installed \in BOOLEAN : disk' = [disk EXCEPT !.nodeModules = installed]
  /\ returned' = returned \cup {"ejectToBareAsync"}
  /\ ejPc' = "success"
  /\ UNCHANGED <<command, pjVars, workingTreeStatus, optEjectMethod, ejectMethod, useYarn,
                 configName, exp, pkgJson, appJson, appJsonFile, semverBound,
                 templateExists, names, logged, invoked, outcome, extFail>>

Next ==
  \/ ReadBuildConfig
  \/ PrepareSelected
  \/ ValidateAndReturn
  \/ GitStatus
  \/ ChooseEjectMethod
  \/ Dispatch
  \/ Login
  \/ DetachProject
  \/ LogSuccess
  \/ BareReadConfig
  \/ BareValidate
  \/ BareCheckTemplate
  \/ GetAppNames
  \/ SetEntryPoint
  \/ WriteAppJson
  \/ ExtractTemplate
  \/ UpdatePackageJson
  \/ AddEntryPoint
  \/ RemoveNodeModules
  \/ Install

Spec == Init /\ [][Next]_vars

(***************************************************************************)
(*                               Properties                                *)
(***************************************************************************)

NoPreparerCalled == \A p \in Preparers : calls[p] = 0

OnlyCalledOnce(q) == \A p \in Preparers : calls[p] = IF p = q THEN 1 ELSE 0

\* C1: once the build config is read and the switch has run, for each of the
\* four supported (platform, type) pairs exactly the matching preparer has
\* been invoked, exactly once, and no other preparer has been invoked.
C1_PreparerMatchesPair ==
  (command = "prepareJob" /\ turtleJson.read = "ok" /\ pjPc \in {"validate", "done"}) =>
    /\ (options.platform = "android" /\ turtleJson.type = "generic")
          => OnlyCalledOnce("prepareAndroidGenericJob")
    /\ (options.platform = "android" /\ turtleJson.type = "managed")
          => OnlyCalledOnce("prepareAndroidManagedJob")
    /\ (options.platform = "ios" /\ turtleJson.type = "generic")
          => OnlyCalledOnce("prepareiOSGenericJob")
    /\ (options.platform = "ios" /\ turtleJson.type = "managed")
          => OnlyCalledOnce("prepareiOSManagedJob")

C1_Witness ==
  /\ pjPc = "done"
  /\ options.platform = "ios"
  /\ turtleJson.type = "managed"
  /\ calls["prepareiOSManagedJob"] = 1
  /\ pjResult.kind = "returned"

\* C2: a job prepareJob returns is the value JobSchema.validate produced for
\* the prepared job, with no validation error; and when JobSchema.validate
\* reports an error for the prepared job, prepareJob throws that error and
\* returns no job.
C2_ReturnsOnlyValidatedJobs ==
  (command = "prepareJob") =>
    /\ pjResult.kind = "returned" =>
         /\ validations = 1
         /\ prepared.wellFormed
         /\ pjResult.job = [prepared EXCEPT !.validated = TRUE]
    /\ (pjPc = "done" /\ validations = 1 /\ ~prepared.wellFormed) =>
         /\ pjResult.kind = "thrown"
         /\ pjResult.error = "ValidationError"
         /\ pjResult.job = NoJob

C2_Witness ==
  /\ pjPc = "done"
  /\ validations = 1
  /\ ~prepared.wellFormed
  /\ pjResult.kind = "thrown"
  /\ pjResult.error = "ValidationError"

C4_ExpectedError ==
  IF exp.isNull THEN "Couldn't read config"
  ELSE IF pkgJson.isNull THEN "Couldn't read package.json"
  ELSE IF exp.sdkMajor < MinSdkMajor THEN "Only available for SDK 33 and higher"
  ELSE "Eject template not found"

\* C4: when ejectToBareAsync has read the configuration and the app config
\* is unreadable, package.json is unreadable, the SDK is below 33 or the
\* template does not exist, it throws the corresponding error and has
\* written nothing, copied nothing, not removed node_modules and run no
\* package manager.
C4_EarlyExitOnFailedValidation ==
  (command = "eject" /\ ejPc = "done" /\ configName # Undefined
     /\ (exp.isNull \/ pkgJson.isNull \/ exp.sdkMajor < MinSdkMajor
           \/ templateExists = "no")) =>
    /\ outcome = Thrown(C4_ExpectedError)
    /\ steps = <<>>
    /\ disk = CleanDisk

\* C5: when the eject method is 'bare', the app config and package.json are
\* readable, the SDK is at least 33, the template exists and no external
\* operation has failed, ejectAsync ends having applied the template, written
\* app.json, package.json and index.js, reinstalled the packages and logged
\* 'Ejected successfully!'.
C5_BareEjectSucceeds ==
  (command = "eject" /\ ejPc = "done" /\ ejectMethod = "bare"
     /\ ~exp.isNull /\ ~pkgJson.isNull /\ exp.sdkMajor >= MinSdkMajor
     /\ templateExists = "yes" /\ ~extFail) =>
    /\ outcome.kind = "returned"
    /\ "Ejected successfully!" \in logged
    /\ disk.appJson.written /\ disk.ios /\ disk.android
    /\ disk.packageJson.written /\ disk.indexJs # Undefined
    /\ Len(steps) = 7

\* C6: getAppNamesAsync prompts if and only if app.json lacks a non-empty
\* displayName or a non-empty name; without the prompt it returns the two
\* values of app.json, and with the prompt it returns the two prompted values.
C6_PromptsIffNameMissing ==
  names.called =>
    /\ names.prompted <=> (appJsonFile.displayName \in {Undefined, ""}
                             \/ appJsonFile.name \in {Undefined, ""})
    /\ (names.returned /\ ~names.prompted) =>
         names.result = [displayName |-> appJsonFile.displayName,
                         name |-> appJsonFile.name]
    /\ (names.returned /\ names.prompted) =>
         names.answer \in NameAnswers /\ names.result = names.answer
    /\ names.returned =>
         appJson.displayName = names.result.displayName /\ appJson.name = names.result.name

C6_Witness ==
  /\ names.returned
  /\ names.prompted
  /\ appJsonFile.displayName = Undefined
  /\ appJsonFile.name = "myapp"
  /\ names.result.name = "HomeApp"

\* C7: an unsupported platform makes prepareJob throw 'Unsupported platform',
\* a supported platform with an unsupported build type 'Unsupported build
\* type', in both cases with no preparer and no validation invoked; and a
\* failed BuildConfig.read is what is thrown, whatever the platform.
C7_RejectsUnsupportedInputs ==
  (command = "prepareJob" /\ pjPc = "done") =>
    /\ turtleJson.read = "failed" =>
         /\ pjResult.kind = "thrown" /\ pjResult.error = "BuildConfigReadError"
         /\ NoPreparerCalled /\ validations = 0
    /\ (turtleJson.read = "ok" /\ options.platform \notin {"android", "ios"}) =>
         /\ pjResult.kind = "thrown" /\ pjResult.error = "Unsupported platform"
         /\ NoPreparerCalled /\ validations = 0
    /\ (turtleJson.read = "ok" /\ options.platform \in {"android", "ios"}
          /\ turtleJson.type \notin {"generic", "managed"}) =>
         /\ pjResult.kind = "thrown" /\ pjResult.error = "Unsupported build type"
         /\ NoPreparerCalled /\ validations = 0

C7_Witness ==
  /\ pjPc = "done"
  /\ turtleJson.read = "ok"
  /\ options.platform = "web"
  /\ pjResult.error = "Unsupported platform"

\* C8: 'Ejected successfully!' is logged only when the method was 'bare' and
\* ejectToBareAsync returned, or 'expokit' and both login and detach
\* returned; 'cancel' returns without invoking any of them, any other method
\* throws 'Unrecognized eject method', and nothing is logged after a failure.
C8_SuccessOnlyAfterSubProcedure ==
  (command = "eject") =>
    /\ "Ejected successfully!" \in logged =>
         \/ ejectMethod = "bare" /\ "ejectToBareAsync" \in returned
         \/ /\ ejectMethod = "expokit"
            /\ {"loginOrRegisterIfLoggedOut", "Detach.detachAsync"} \subseteq returned
    /\ ejectMethod = "cancel" =>
         /\ invoked = {}
         /\ "Ejected successfully!" \notin logged
         /\ ejPc = "done" => outcome.kind = "returned"
    /\ (ejPc = "done" /\ ejectMethod \notin {Undefined, "bare", "expokit", "cancel"}) =>
         /\ outcome = Thrown("Unrecognized eject method")
         /\ invoked = {}
         /\ "Ejected successfully!" \notin logged
    /\ outcome.kind \in {"thrown", "exit"} => "Ejected successfully!" \notin logged

C8_Witness ==
  /\ ejPc = "done"
  /\ ejectMethod = "bare"
  /\ "ejectToBareAsync" \in returned
  /\ "Ejected successfully!" \in logged

\* The mutating steps of a complete eject to a bare project, in order.
AllSteps(yarn) ==
  <<"write app.json", "copy ios", "copy android", "write package.json", "write index.js",
    "remove node_modules", IF yarn THEN "yarnpkg" ELSE "npm install">>

IsPrefix(s, t) == Len(s) <= Len(t) /\ \A i \in 1..Len(s) : s[i] = t[i]

C10_WrittenPackageJson ==
  (command = "eject" /\ "ejectToBareAsync" \in returned) =>
    /\ disk.packageJson.written
    /\ disk.packageJson.content.scripts =
         [eject |-> Undefined, start |-> "react-native start",
          ios |-> "react-native run-ios", android |-> "react-native run-android"]
    /\ disk.packageJson.content.deps.reactNative # Undefined
    /\ disk.packageJson.content.deps.unimodules # Undefined
    /\ disk.packageJson.content.main = Undefined

====
